---- MODULE Spec2Model ----
(***************************************************************************)
(* Model of the Fetchr backend relay (src/server.js): the handler of       *)
(* POST /api/generate-content.  A request is received, its messages are    *)
(* converted to the provider's Content format, one call is made to the     *)
(* generation backend (generateContent or startChat/sendMessage), and the  *)
(* handler resumes when the provider settles the call.                     *)
(*                                                                         *)
(* Strings built from templates are modelled as sequences of their pieces  *)
(* (<<"Block Reason: ", reason>>); a text returned by the provider is a    *)
(* sequence of characters, so that trim() is computed, not assumed.        *)
(***************************************************************************)
EXTENDS Integers, Sequences, FiniteSets, TLC

\* ---------------------------------------------------------------- bounds
\* Longest messages array of a request, sequential specification.
MaxMsgs == 2
\* Longest provider text, sequential specification.
MaxText == 2
\* The same two bounds for the specification with concurrent requests.
ConcMaxMsgs == 1
ConcMaxText == 1

\* Requests in flight in the concurrent specification; the sequential one
\* serves the first of them only.
RequestIds == {"r1", "r2"}
SeqRequest == "r1"

\* Characters of a provider text: one whitespace character, one other.
Chars == {" ", "a"}
Whitespace == {" "}

\* ------------------------------------------------------- request bodies
\* A JSON value in the position of body.messages.  t is the JavaScript
\* type, n the length of a string or the value of a number, items the
\* elements of an array.
JUndefined == [t |-> "undefined", n |-> 0, items |-> <<>>]
JNull == [t |-> "null", n |-> 0, items |-> <<>>]
JEmptyString == [t |-> "string", n |-> 0, items |-> <<>>]
JString == [t |-> "string", n |-> 3, items |-> <<>>]
JObject == [t |-> "object", n |-> 0, items |-> <<>>]
JArray(items) == [t |-> "array", n |-> 0, items |-> items]

\* An element of the messages array: null, a primitive (its .role and
\* .content read as undefined) or an object with a role and a content.
NullElement == [t |-> "null", role |-> "undefined", content |-> "undefined"]
PrimElement == [t |-> "primitive", role |-> "undefined", content |-> "undefined"]
ChatMessage(role) == [t |-> "object", role |-> role, content |-> "Hi"]
Roles == {"user", "assistant", "system", "tool"}
Elements == {NullElement, PrimElement} \cup {ChatMessage(role) : role \in Roles}

SeqsUpTo(S, n) == UNION {[1..k -> S] : k \in 0..n}

MessagesValues(maxMsgs) ==
    {JUndefined, JNull, JEmptyString, JString, JObject}
        \cup {JArray(items) : items \in SeqsUpTo(Elements, maxMsgs)}

\* petData and sensorData of the body.  birthDays is the age of the
\* birthdate in days at the time of the request.
NoPet == [present |-> FALSE, name |-> "", breed |-> "", hasBirthdate |-> FALSE, birthDays |-> 0]
Rex == [present |-> TRUE, name |-> "Rex", breed |-> "", hasBirthdate |-> TRUE, birthDays |-> 731]
NoSensor == [present |-> FALSE, activityStatus |-> "", heartRate |-> 0, dangerMode |-> FALSE]
Resting == [present |-> TRUE, activityStatus |-> "Resting", heartRate |-> 0, dangerMode |-> TRUE]

Bodies ==
    [messages : MessagesValues(MaxMsgs), petData : {NoPet, Rex}, sensorData : {NoSensor, Resting}]
ConcBodies ==
    [messages : MessagesValues(ConcMaxMsgs), petData : {NoPet}, sensorData : {NoSensor}]
NoBody == [messages |-> JUndefined, petData |-> NoPet, sensorData |-> NoSensor]

\* ------------------------------------------------- provider's settlement
\* The provider either rejects the call (transport failure) or resolves
\* it with a response whose text() throws or returns text, and which may
\* carry promptFeedback with or without a blockReason ("" when absent).
Feedbacks ==
    { [present |-> FALSE, blockReason |-> ""],
      [present |-> TRUE, blockReason |-> ""],
      [present |-> TRUE, blockReason |-> "SAFETY"] }

RepliesUpTo(maxText) ==
    [kind : {"resolved"}, throws : {FALSE}, text : SeqsUpTo(Chars, maxText), feedback : Feedbacks]
        \cup [kind : {"resolved"}, throws : {TRUE}, text : {<<>>}, feedback : Feedbacks]
        \cup [kind : {"rejected"}, throws : {FALSE}, text : {<<>>},
              feedback : {[present |-> FALSE, blockReason |-> ""]}]
Replies == RepliesUpTo(MaxText)
ConcReplies == RepliesUpTo(ConcMaxText)
NoReply == [kind |-> "none", throws |-> FALSE, text |-> <<>>,
            feedback |-> [present |-> FALSE, blockReason |-> ""]]

\* ------------------------------------------------------ prompt composer
\* Whole years between the birthdate and now: floor(days / 365.25).
AgeInYears(birthDays) == (birthDays * 4) \div 1461

createPetAssistantPrompt(petData, sensorData) ==
    LET petName == IF petData.present /\ petData.name # "" THEN petData.name ELSE "your pet"
        petBreed == IF petData.present /\ petData.breed # "" THEN petData.breed ELSE "unknown breed"
        petAge == IF petData.present /\ petData.hasBirthdate
                  THEN ToString(AgeInYears(petData.birthDays))
                  ELSE "unknown age"
        currentStatus ==
            IF sensorData.present
            THEN << "Current Status: ",
                    IF sensorData.activityStatus # "" THEN sensorData.activityStatus ELSE "Unknown",
                    ", Heart Rate: ",
                    IF sensorData.heartRate # 0 THEN ToString(sensorData.heartRate) ELSE "No data",
                    " bpm, Danger Mode: ",
                    IF sensorData.dangerMode THEN "ACTIVE" ELSE "Safe" >>
            ELSE << "No current sensor data available" >>
    IN  << "You are Fetchr, a personalized pet care assistant for ", petName,
           ", a ", petAge, "-year-old ", petBreed, ". PET PROFILE: " >> \o currentStatus

\* ------------------------------------------------------------ responses
\* A response sent with res.json: keys are the fields of its JSON body.
Response(status, keys, error, details, content) ==
    [status |-> status, keys |-> keys, error |-> error, details |-> details, content |-> content]

MissingMessagesError == "Messages array is required and cannot be empty."
NoUsableMessagesError == "No user or assistant messages found after processing."
FirstRoleError == "Invalid message history: First message must be from user role."
EmptyOrBlockedError == "Failed to generate content (Response was empty or blocked)."
InternalError == "Internal Server Error: Pet Assistant API communication failed."

\* The catch block of the handler: the error escapes and no response is sent.
CatchRethrows(message) == << >>

\* The catch block of the handler: every error thrown inside the try block
\* is answered with status 500 and the error's message as details.
CatchHandler(message) ==
    << Response(500, {"error", "details"}, InternalError, message, <<>>) >>

\* ------------------------------------------------- validation of messages
IsFalsy(v) == v.t \in {"undefined", "null"} \/ (v.t = "string" /\ v.n = 0)

\* messages.length === 0; the length of an object that is no array is undefined.
LengthIsZero(v) == (v.t = "array" /\ Len(v.items) = 0) \/ (v.t = "string" /\ v.n = 0)

\* The guard without its length test.
MessagesMissingOnly(messages) == IsFalsy(messages)

\* !messages || messages.length === 0
MessagesMissingOrEmpty(messages) == IsFalsy(messages) \/ LengthIsZero(messages)

\* messages.filter(m => m.role !== 'system') throws a TypeError when messages
\* has no filter method or when an element is null.
NormalizeThrows(messages) ==
    \/ messages.t # "array"
    \/ \E i \in 1..Len(messages.items) : messages.items[i].t = "null"

TypeErrorMessage(messages) ==
    IF messages.t # "array"
    THEN << "messages.filter is not a function" >>
    ELSE << "Cannot read properties of null (reading 'role')" >>

\* ------------------------------------------------------------ normalizer
RECURSIVE Filter(_)
\* items.filter(m => m.role !== 'system')
Filter(items) ==
    IF items = << >> THEN << >>
    ELSE IF Head(items).role # "system"
         THEN << Head(items) >> \o Filter(Tail(items))
         ELSE Filter(Tail(items))

\* The role passed through unmapped.
MapRoleUnmapped(role) == role

\* m.role === 'assistant' ? 'model' : 'user'
MapRole(role) == IF role = "assistant" THEN "model" ELSE "user"

\* parts: [{ text: m.content }]
TextOf(m) == << m.content >>

Content(role, text) == [role |-> role, text |-> text]

\* The contents array: the system prompt as a 'user' message, then the
\* filtered and mapped conversation history.
Normalize(systemPrompt, items) ==
    LET kept == Filter(items)
    IN  << Content("user", systemPrompt) >>
            \o [i \in 1..Len(kept) |-> Content(MapRole(kept[i].role), TextOf(kept[i]))]

\* Indexes i at which contents[i] and contents[i+1] have the same role: the
\* warnings logged by the alternation loop.
AlternationWarnings(contents) ==
    {i \in 1..(Len(contents) - 1) : contents[i].role = contents[i + 1].role}

\* ------------------------------------------------------------ dispatcher
generationConfig == [maxOutputTokens |-> 2048, temperature |-> "0.7", topP |-> "0.8", topK |-> 40]
getGenerativeModel == [model |-> "gemini-2.0-flash-exp", generationConfig |-> generationConfig]

NoCall == [mode |-> "none", model |-> getGenerativeModel, history |-> << >>, text |-> << >>]

RECURSIVE DropRepeats(_)
DropRepeats(contents) ==
    IF Len(contents) < 2 THEN contents
    ELSE IF contents[1].role = contents[2].role
         THEN DropRepeats(Tail(contents))
         ELSE << Head(contents) >> \o DropRepeats(Tail(contents))

\* The dispatcher with same-role repeats merged away before the call.
DispatchAlternating(contents) ==
    LET c == DropRepeats(contents)
    IN  IF Len(c) = 1
        THEN [mode |-> "generateContent", model |-> getGenerativeModel,
              history |-> << >>, text |-> c[1].text]
        ELSE [mode |-> "chat", model |-> getGenerativeModel,
              history |-> SubSeq(c, 1, Len(c) - 1), text |-> c[Len(c)].text]

\* The dispatcher with the single-shot branch taken up to length 2.
DispatchOffByOne(contents) ==
    IF Len(contents) <= 2
    THEN [mode |-> "generateContent", model |-> getGenerativeModel,
          history |-> << >>, text |-> contents[1].text]
    ELSE [mode |-> "chat", model |-> getGenerativeModel,
          history |-> SubSeq(contents, 1, Len(contents) - 1),
          text |-> contents[Len(contents)].text]

\* The call made to the generation backend: generateContent with the text
\* of the only element, or a chat seeded with contents.slice(0, -1) to
\* which the text of the last element is sent.
Dispatch(contents) ==
    IF Len(contents) = 1
    THEN [mode |-> "generateContent", model |-> getGenerativeModel,
          history |-> << >>, text |-> contents[1].text]
    ELSE [mode |-> "chat", model |-> getGenerativeModel,
          history |-> SubSeq(contents, 1, Len(contents) - 1),
          text |-> contents[Len(contents)].text]

\* ----------------------------------------------------- text extraction
RECURSIVE TrimStart(_)
TrimStart(text) ==
    IF text # << >> /\ Head(text) \in Whitespace THEN TrimStart(Tail(text)) ELSE text

RECURSIVE TrimEnd(_)
TrimEnd(text) ==
    IF text # << >> /\ text[Len(text)] \in Whitespace
    THEN TrimEnd(SubSeq(text, 1, Len(text) - 1))
    ELSE text

\* text.trim()
Trim(text) == TrimEnd(TrimStart(text))

\* The test without trim(): only the empty string is unusable.
IsEmptyOnly(text) == Len(text) = 0

\* !text || text.trim().length === 0
IsBlank(text) == Len(text) = 0 \/ Len(Trim(text)) = 0

\* The block reason reported for an unusable text.
BlockReason(feedback) ==
    IF feedback.present
    THEN IF feedback.blockReason # "" THEN feedback.blockReason ELSE "No block reason provided."
    ELSE "Unknown reason."

TransportFailureMessage == << "fetch failed" >>
ExtractionFailureMessage == << "Failed to extract text from Gemini response" >>

\* ---------------------------------------------------------- the handler
\* State of one request: pc is the position of its handler, contents and
\* warnings its local values, sent the responses written with res.json.
IdleRequest ==
    [pc |-> "idle", body |-> NoBody, contents |-> << >>, warnings |-> {}, sent |-> << >>]

Answered(body, contents, responses) ==
    [pc |-> "done", body |-> body, contents |-> contents, warnings |-> {}, sent |-> responses]

\* The handler from its entry to its first suspension: it either answers
\* (the request is done, no call was made) or makes the call Dispatch
\* computes and awaits its settlement.
HandlerStart(body) ==
    IF MessagesMissingOrEmpty(body.messages)
    THEN [req |-> Answered(body, << >>,
                     << Response(400, {"error"}, MissingMessagesError, << >>, << >>) >>),
          call |-> NoCall]
    ELSE IF NormalizeThrows(body.messages)
    THEN [req |-> Answered(body, << >>, CatchHandler(TypeErrorMessage(body.messages))),
          call |-> NoCall]
    ELSE LET systemPrompt == createPetAssistantPrompt(body.petData, body.sensorData)
             contents == Normalize(systemPrompt, body.messages.items)
         IN  IF Len(contents) = 0
             THEN [req |-> Answered(body, contents,
                              << Response(400, {"error"}, NoUsableMessagesError, << >>, << >>) >>),
                   call |-> NoCall]
             ELSE IF Len(contents) > 1 /\ contents[1].role # "user"
             THEN [req |-> Answered(body, contents,
                              << Response(400, {"error", "details"}, FirstRoleError,
                                          << "First message has role: ", contents[1].role >>,
                                          << >>) >>),
                   call |-> NoCall]
             ELSE [req |-> [pc |-> "awaiting", body |-> body, contents |-> contents,
                            warnings |-> IF Len(contents) = 1 THEN {}
                                         ELSE AlternationWarnings(contents),
                            sent |-> << >>],
                   call |-> Dispatch(contents)]

\* The handler from the settlement of its call to its end.
HandlerResume(req, reply) ==
    LET responses ==
            IF reply.kind = "rejected" THEN CatchHandler(TransportFailureMessage)
            ELSE IF reply.throws THEN CatchHandler(ExtractionFailureMessage)
            ELSE IF IsBlank(reply.text)
            THEN << Response(500, {"error", "details"}, EmptyOrBlockedError,
                             << "Block Reason: ", BlockReason(reply.feedback) >>, << >>) >>
            ELSE << Response(200, {"content"}, "", << >>, reply.text) >>
    IN  [req EXCEPT !.pc = "done", !.sent = req.sent \o responses]

\* The settlement resumes whichever handler is suspended, not the caller.
ResumeAnySuspended(requests, r, reply) ==
    LET s == CHOOSE q \in RequestIds : requests[q].pc = "awaiting"
    IN  [requests EXCEPT ![s] = HandlerResume(requests[s], reply)]

\* result = await ...: the settlement of r's call resumes r's handler, whose
\* result, response and text are local to it.
Resume(requests, r, reply) ==
    [requests EXCEPT ![r] = HandlerResume(requests[r], reply)]

\* ---------------------------------------------------------------- state
\* reqs: request id -> state of the request and of its handler.
\* backend: request id -> the call the backend received for it, and its reply.
\* callOrder: the requests whose calls the backend received, in order of receipt.
VARIABLES reqs, backend, callOrder

vars == << reqs, backend, callOrder >>

Init ==
    /\ reqs = [r \in RequestIds |-> IdleRequest]
    /\ backend = [r \in RequestIds |-> [call |-> NoCall, reply |-> NoReply]]
    /\ callOrder = << >>

\* POST /api/generate-content arrives with the given body.
Receive(r, body) ==
    /\ reqs[r].pc = "idle"
    /\ LET h == HandlerStart(body)
       IN  /\ reqs' = [reqs EXCEPT ![r] = h.req]
           /\ backend' = [backend EXCEPT ![r].call = h.call]
           /\ callOrder' = IF h.call = NoCall THEN callOrder ELSE Append(callOrder, r)

\* The generation backend settles the call of request r.
ProviderSettles(r, reply) ==
    /\ reqs[r].pc = "awaiting"
    /\ backend' = [backend EXCEPT ![r].reply = reply]
    /\ reqs' = Resume(reqs, r, reply)
    /\ UNCHANGED callOrder

\* One client, one request, every body and every settlement.
Next ==
    \/ \E body \in Bodies : Receive(SeqRequest, body)
    \/ \E reply \in Replies : ProviderSettles(SeqRequest, reply)

Spec == Init /\ [][Next]_vars

\* Several requests in flight, received and settled in any interleaving.
NextConc ==
    \/ \E r \in RequestIds, body \in ConcBodies : Receive(r, body)
    \/ \E r \in RequestIds, reply \in ConcReplies : ProviderSettles(r, reply)

SpecConc == Init /\ [][NextConc]_vars

\* ------------------------------------------------- vocabulary of claims
Processed(r) == reqs[r].pc # "idle"
Messages(r) == reqs[r].body.messages
NoBackendCall(r) == backend[r].call.mode = "none" /\ \A i \in 1..Len(callOrder) : callOrder[i] # r
AnsweredOnce(r) == reqs[r].pc = "done" /\ Len(reqs[r].sent) = 1
Status(r) == reqs[r].sent[1].status

\* A text without a character that is not whitespace.
EmptyOrWhitespace(text) == \A i \in 1..Len(text) : text[i] \in Whitespace

TextExtracted(r) ==
    /\ reqs[r].pc = "done"
    /\ backend[r].reply.kind = "resolved"
    /\ ~backend[r].reply.throws

SuppliedBlockReason(r) ==
    backend[r].reply.feedback.present /\ backend[r].reply.feedback.blockReason # ""

Mentions(details, piece) == \E i \in 1..Len(details) : details[i] = piece

GenericReasons == {"Unknown reason.", "No block reason provided."}

\* A non-empty array whose elements are all messages of role 'system'.
OnlySystemMessages(m) ==
    /\ m.t = "array"
    /\ Len(m.items) > 0
    /\ \A i \in 1..Len(m.items) : m.items[i].t = "object" /\ m.items[i].role = "system"

\* A value that is no ChatMessage[]: a non-empty string, an object that is
\* no array, or an array with an element that is null or no object.
ShapeMismatch(m) ==
    \/ m.t = "string" /\ m.n > 0
    \/ m.t = "object"
    \/ m.t = "array" /\ \E i \in 1..Len(m.items) : m.items[i].t # "object"

\* --------------------------------------------------------------- claims
\* C1: a request whose messages are a non-empty list of 'system' messages
\* only is answered 400 (no usable messages) and no call reaches the
\* generation backend.
C1_OnlySystemRejected ==
    \A r \in RequestIds :
        Processed(r) /\ OnlySystemMessages(Messages(r)) =>
            /\ AnsweredOnce(r)
            /\ Status(r) = 400
            /\ NoBackendCall(r)

\* C2: a request whose messages are absent, null or the empty list is
\* answered 400 with an 'error' field, and no call, single-shot or chat,
\* reaches the generation backend.
C2_MissingOrEmptyRejected ==
    \A r \in RequestIds :
        Processed(r) /\ Messages(r) \in {JUndefined, JNull, JArray(<< >>)} =>
            /\ AnsweredOnce(r)
            /\ Status(r) = 400
            /\ "error" \in reqs[r].sent[1].keys
            /\ NoBackendCall(r)

C2_Witness ==
    \E r \in RequestIds :
        /\ Messages(r) = JArray(<< >>)
        /\ AnsweredOnce(r)

\* C3: a request whose messages do not have the shape ChatMessage[] is
\* answered 400 before any call to the backend, and never 500.
C3_ShapeMismatchRejected ==
    \A r \in RequestIds :
        Processed(r) /\ ShapeMismatch(Messages(r)) =>
            /\ AnsweredOnce(r)
            /\ Status(r) = 400
            /\ NoBackendCall(r)

\* C4: when the extracted text is empty or whitespace only, the answer is
\* 500 with details that hold the provider's block reason if it supplied
\* one and a generic reason otherwise; no answer is 200 with such a text.
C4_BlankTextIsProviderError ==
    \A r \in RequestIds :
        /\ TextExtracted(r) /\ EmptyOrWhitespace(backend[r].reply.text) =>
            /\ AnsweredOnce(r)
            /\ Status(r) = 500
            /\ "details" \in reqs[r].sent[1].keys
            /\ IF SuppliedBlockReason(r)
               THEN Mentions(reqs[r].sent[1].details, backend[r].reply.feedback.blockReason)
               ELSE \E g \in GenericReasons : Mentions(reqs[r].sent[1].details, g)
        /\ \A i \in 1..Len(reqs[r].sent) :
              reqs[r].sent[i].status = 200 => ~EmptyOrWhitespace(reqs[r].sent[i].content)

C4_Witness ==
    \E r \in RequestIds :
        /\ TextExtracted(r)
        /\ backend[r].reply.text = << " " >>
        /\ SuppliedBlockReason(r)
        /\ AnsweredOnce(r)

\* C5: when extracting the text throws, the answer is the same 'empty or
\* blocked' provider error as for an empty text, and the block reason the
\* provider attached is part of its details.
C5_ExtractionFailureReportsBlockReason ==
    \A r \in RequestIds :
        reqs[r].pc = "done" /\ backend[r].reply.kind = "resolved" /\ backend[r].reply.throws =>
            /\ AnsweredOnce(r)
            /\ Status(r) = 500
            /\ reqs[r].sent[1].error = EmptyOrBlockedError
            /\ SuppliedBlockReason(r) =>
                  Mentions(reqs[r].sent[1].details, backend[r].reply.feedback.blockReason)

Accepted(r) == reqs[r].pc \in {"awaiting", "done"} /\ reqs[r].contents # << >>

\* Positions of the messages of r that are not of role 'system'.
NonSystem(r) ==
    {i \in 1..Len(Messages(r).items) : Messages(r).items[i].role # "system"}

\* C7: the normalized sequence of an accepted request is the instruction
\* with role 'user', then the messages that are not 'system' in their
\* order, 'assistant' as 'model' and every other role as 'user'; its
\* length is one more than the number of those messages.
C7_NormalizedSequence ==
    \A r \in RequestIds :
        Accepted(r) =>
            LET items == Messages(r).items
                contents == reqs[r].contents
            IN  /\ Len(contents) = 1 + Cardinality(NonSystem(r))
                /\ contents[1].role = "user"
                /\ contents[1].text =
                      createPetAssistantPrompt(reqs[r].body.petData, reqs[r].body.sensorData)
                /\ \A i \in NonSystem(r) :
                      LET k == 1 + Cardinality({j \in NonSystem(r) : j <= i})
                      IN  /\ contents[k].role =
                                IF items[i].role = "assistant" THEN "model" ELSE "user"
                          /\ contents[k].text = << items[i].content >>

C7_Witness ==
    \E r \in RequestIds :
        /\ Accepted(r)
        /\ Messages(r).items = << ChatMessage("system"), ChatMessage("assistant") >>
        /\ Len(reqs[r].contents) = 2

\* C8: the dispatch mode follows the length of the normalized sequence:
\* above 1, a chat with all elements but the last as history and the text
\* of the last as the new turn; single-shot, with the instruction text and
\* no chat, at length 1 and only there.
C8_DispatchByLength ==
    \A r \in RequestIds :
        Accepted(r) =>
            LET contents == reqs[r].contents
                call == backend[r].call
                n == Len(contents)
            IN  /\ n > 1 =>
                    /\ call.mode = "chat"
                    /\ Len(call.history) = n - 1
                    /\ \A i \in 1..(n - 1) : call.history[i] = contents[i]
                    /\ call.text = contents[n].text
                /\ n = 1 =>
                    /\ call.mode = "generateContent"
                    /\ call.history = << >>
                    /\ call.text = contents[1].text
                /\ call.mode = "generateContent" => n = 1

C8_Witness ==
    \E r \in RequestIds :
        /\ Accepted(r)
        /\ Messages(r).items = << ChatMessage("user") >>
        /\ backend[r].call.mode = "chat"
        /\ Len(backend[r].call.history) = 1
        /\ backend[r].call.history[1].role = "user"

\* The normalized sequence of r has two adjacent messages of the same role.
SameRoleRepeat(r) ==
    \E i \in 1..(Len(reqs[r].contents) - 1) :
        reqs[r].contents[i].role = reqs[r].contents[i + 1].role

\* C9: a same-role repeat in the normalized sequence changes nothing: the
\* request is not aborted, the chat call carries the whole sequence as it
\* is, and the answer is the one the provider's result alone decides.
C9_RepeatsDoNotChangeOutcome ==
    \A r \in RequestIds :
        Processed(r) /\ SameRoleRepeat(r) =>
            LET contents == reqs[r].contents
                call == backend[r].call
                reply == backend[r].reply
            IN  /\ call.mode = "chat"
                /\ call.history \o << Content(contents[Len(contents)].role, call.text) >> = contents
                /\ reqs[r].pc = "awaiting" => reqs[r].sent = << >>
                /\ reqs[r].pc = "done" =>
                    /\ AnsweredOnce(r)
                    /\ Status(r) \in {200, 500}
                    /\ Status(r) = 200 <=>
                          /\ reply.kind = "resolved"
                          /\ ~reply.throws
                          /\ ~EmptyOrWhitespace(reply.text)
                    /\ Status(r) = 200 => reqs[r].sent[1].content = reply.text

C9_Witness ==
    \E r \in RequestIds :
        /\ SameRoleRepeat(r)
        /\ Messages(r).items = << ChatMessage("assistant"), ChatMessage("assistant") >>
        /\ reqs[r].warnings = {2}
        /\ AnsweredOnce(r)
        /\ Status(r) = 200

\* The answer that r's own body and the reply to r's own call decide.
OwnAnswer(r) ==
    LET m == Messages(r)
        reply == backend[r].reply
        res == reqs[r].sent[1]
    IN  IF m \in {JUndefined, JNull, JEmptyString, JArray(<< >>)}
        THEN res.status = 400 /\ reply = NoReply
        ELSE IF ShapeMismatch(m) /\ (m.t # "array" \/ \E i \in 1..Len(m.items) : m.items[i].t = "null")
        THEN res.status = 500 /\ reply = NoReply
        ELSE /\ reply # NoReply
             /\ IF reply.kind = "resolved" /\ ~reply.throws /\ ~EmptyOrWhitespace(reply.text)
                THEN res.status = 200 /\ res.content = reply.text
                ELSE /\ res.status = 500
                     /\ reply.kind = "resolved" /\ ~reply.throws =>
                           Mentions(res.details, BlockReason(reply.feedback))

\* Every request holds what its own body and the reply to its own call decide.
OwnResults ==
    \A r \in RequestIds :
        /\ reqs[r].pc = "done" => AnsweredOnce(r) /\ OwnAnswer(r)
        /\ reqs[r].pc # "done" => reqs[r].sent = << >> /\ backend[r].reply = NoReply
        /\ Processed(r) /\ backend[r].call # NoCall =>
              backend[r].call = Dispatch(Normalize(
                  createPetAssistantPrompt(reqs[r].body.petData, reqs[r].body.sensorData),
                  Messages(r).items))

\* A step that changes one request leaves every other request as it was.
StepTouchesOneRequest ==
    \A r, s \in RequestIds :
        r # s /\ (reqs'[r] # reqs[r] \/ backend'[r] # backend[r]) =>
            reqs'[s] = reqs[s] /\ backend'[s] = backend[s]

\* C10: with several requests suspended at the provider call, the answer
\* of each is decided by its own body and the reply to its own call; no
\* step of one request reads or writes another, whether the other's call
\* is pending, failed or settled.
C10_RequestsIndependent == [](OwnResults) /\ [][StepTouchesOneRequest]_vars

\* The backend received r's call before s's; s is answered from its own
\* reply while r's call is still pending.
C10_Witness ==
    \E r, s \in RequestIds :
        /\ callOrder = << r, s >>
        /\ reqs[r].pc = "awaiting"
        /\ AnsweredOnce(s)
        /\ Status(s) = 200

====
